---- MODULE Spec2Model ----
(***************************************************************************)
(* A model of the blockchain node's background worker                       *)
(* (foundation/blockchain/worker.go) and of the account ledger              *)
(* (foundation/blockchain/database/database.go).                            *)
(*                                                                          *)
(* The worker is three goroutines (peer, mining, share-tx) talking over     *)
(* buffered signal channels; every channel operation, every isShutdown      *)
(* check and every read of shared state is one step of the model.           *)
(***************************************************************************)
EXTENDS Integers, Sequences, FiniteSets, TLC

\* ------------------------------------------------------------------ bounds

\* genesis.TransPerBlock: the mempool length from which a block is mined.
TransPerBlock == 2
\* How many transactions the RPC layer adds to the mempool in one behaviour.
MaxTx == 4
\* How many peers the node ever knows.
MaxPeers == 2
\* The highest block number a peer reports.
MaxHeight == 2
\* How many distinct transaction batches are offered for sharing.
NumBatches == 2
\* Capacity of txSharing. The source's maxTxShareRequests is 100
\* (worker.go:20); the model keeps the channel's behaviour and scales its
\* capacity.
TxSharingCap == 1

\* Width of the ledger's unsigned integers. The source's are uint64; the
\* model keeps the wrap-around and scales the width.
WordBits == 5
\* How many ledger calls (ApplyTransaction, ApplyMiningReward) one behaviour makes.
MaxCalls == 2
\* How many blocks a storage holds when New reads it.
MaxBlocks == 2

\* --------------------------------------------------------------- constants

\* make(chan bool, 1) for peerUpdates, startMining and cancelMining.
peerUpdatesCap == 1
startMiningCap == 1
cancelMiningCap == 1
\* len(operations): the number of goroutines runBCWorker starts.
NumOperations == 3

Min(a, b) == IF a < b THEN a ELSE b
Max(a, b) == IF a > b THEN a ELSE b

VARIABLES
    \* runBCWorker / shutdown
    pcMain,        \* "initSync", "waitStarted", "running", "sdCancel", "sdClose", "sdWait", "sdDone"
    started,       \* receives from hasStarted done so far
    \* the three goroutines
    pcPeer, pcMining, pcShare,
    \* channels
    shut,          \* TRUE once close(bw.shut) has run
    tickerOn,      \* the ticker has not been stopped
    tickC,         \* pending ticks in ticker.C (capacity 1)
    peerUpdates, startMining, cancelMining,   \* pending signals
    txSharing,     \* queue of batches
    \* State facade
    mempool,       \* QueryMempoolLength()
    txAdded,       \* transactions added so far (bounds the behaviour)
    latest,        \* CopyLatestBlock().Header.Number
    knownPeers,    \* len(CopyKnownPeers())
    \* one pass of runPeerUpdatesOperation
    passLen,       \* length of the copy of the peer list being iterated
    passIdx,       \* peers of the copy already processed
    passTruncs,    \* Truncate() calls made in this pass
    passForked,    \* writePeerBlocks returned ErrChainForked in this pass
    passErr,       \* what writePeerBlocks returned for the last peer ("none": not called)
    passSeen,      \* iterations of the peer loop run in this pass
    \* one runMiningOperation
    ctx,           \* "none", "live", "cancelled"
    ctxCause,      \* who cancelled it first: "none", "signal", "deadline", "miner"
    cancelG,       \* "none", "wait", "done"
    miner,         \* "none", "mining", "done"
    activeRuns,    \* runMiningOperation calls in progress
    mineCalls,     \* MineNewBlock calls in progress
    \* sendBlockToPeers of the run
    annState,      \* "none", "sending", "returned"
    annLen,        \* length of the copy of the peer list being iterated
    annTried,      \* peers of the copy the block was posted to (whatever the result)
    \* history of the signals
    burstCalls,    \* signalStartMining calls since the last dequeue: 0, 1, 2 for more
    burstAccepted, \* those of them the channel accepted
    cancelInRun,   \* signalCancelMining was called since this run's dequeue
    cancelAfterDrain, \* ... and after this run's drain
    watcherGot,    \* the cancel watcher of this run received a signal
    staleCancel,   \* cancelMining held a signal when this run's startMining was dequeued
    curBatch,      \* the batch the share-tx goroutine dequeued (0: none)
    \* one runShareTxOperation
    deqOpen,       \* curBatch was dequeued with shut not closed and a peer known
    shareIdx,      \* peers of the copy of the peer list already processed
    sharePosts,    \* per peer of the copy, whether each POST /tx/add sent to it succeeded
    \* the ledger (database.go)
    accounts,      \* db.accounts: a map from account IDs to [Balance, Nonce]
    pre,           \* db.accounts before the last ledger call
    call,          \* the last ledger call and its arguments
    callErr,       \* what the last ledger call returned ("none" before any)
    calls,         \* ledger calls made
    okNonces,      \* per sender, the nonces of the calls that returned nil, in order
    rewardTotal,   \* the mining rewards granted
    \* the database around the ledger (database.go)
    dbPc,          \* New: "new" while it runs, "open" once it returned a database, "failed"
    storage,       \* the blocks db.storage holds, oldest first
    latestBlock,   \* db.latestBlock, as its number (0: the zero Block)
    raState,       \* ReadAllBlocks: "reading", "ok" (returned blocks, nil), "error"
    raRead,        \* blocks ReadAllBlocks has appended
    raErrSeen,     \* an iter.Next call of ReadAllBlocks returned an error
    raInvalidSeen, \* a block failed ValidateBlock in ReadAllBlocks
    mu,            \* db.mu: "free" or the operation that holds it
    resetPc        \* Reset: "idle", or the statement it is about to run

vars == <<pcMain, started, pcPeer, pcMining, pcShare, shut, tickerOn, tickC,
          peerUpdates, startMining, cancelMining, txSharing, mempool, txAdded,
          latest, knownPeers, passLen, passIdx, passTruncs, passForked, passErr,
          passSeen, ctx,
          ctxCause, cancelG, miner, activeRuns, mineCalls, annState, annLen,
          annTried, burstCalls,
          burstAccepted, cancelInRun, cancelAfterDrain, watcherGot, staleCancel,
          curBatch, deqOpen, shareIdx, sharePosts,
          accounts, pre, call, callErr, calls, okNonces, rewardTotal,
          dbPc, storage, latestBlock, raState, raRead, raErrSeen, raInvalidSeen,
          mu, resetPc>>

mainVars == <<pcMain, started>>
chanVars == <<shut, tickerOn, tickC, peerUpdates, startMining, cancelMining, txSharing>>
readVars == <<raState, raRead, raErrSeen, raInvalidSeen>>
dbVars == <<dbPc, storage, latestBlock, readVars, mu, resetPc>>
ledgerVars == <<accounts, pre, call, callErr, calls, okNonces, rewardTotal, dbVars>>
stateVars == <<mempool, txAdded, latest, knownPeers, ledgerVars>>
passVars == <<passLen, passIdx, passTruncs, passForked, passErr, passSeen>>
annVars == <<annState, annLen, annTried>>
runVars == <<ctx, ctxCause, cancelG, miner, activeRuns, mineCalls, annVars>>
burstVars == <<burstCalls, burstAccepted>>
shareVars == <<deqOpen, shareIdx, sharePosts>>
cancelHist == <<cancelInRun, cancelAfterDrain, watcherGot, staleCancel>>
workerVars == <<mainVars, pcPeer, pcMining, pcShare, chanVars, mempool, txAdded,
                latest, knownPeers, passVars, runVars, burstVars, cancelHist,
                curBatch, shareVars>>

Batches == 1..NumBatches


\* ------------------------------------------------------------- the ledger

\* Account IDs: three are enough for the sender, the recipient and the
\* beneficiary to be distinct or to coincide in every way.
Acct == {"A", "B", "M"}

\* uint64 arithmetic, at the model's width.
Modulus == 2 ^ WordBits
U(x) == x % Modulus

\* genesis.ChainID and genesis.Balances.
ChainID == 1
GenesisBalances == [a \in {"A", "B"} |-> IF a = "A" THEN 3 ELSE 1]

\* The zero Account: what a map read of a missing key gives.
ZeroAccount == [Balance |-> 0, Nonce |-> 0]

\* db.accounts[id]
Get(acc, id) == IF id \in DOMAIN acc THEN acc[id] ELSE ZeroAccount

\* db.accounts[id] = account
Put(acc, id, account) ==
    [x \in (DOMAIN acc) \cup {id} |-> IF x = id THEN account ELSE acc[x]]

\* New on an empty storage: the accounts of genesis.Balances.
GenesisAccounts == [a \in DOMAIN GenesisBalances |-> [Balance |-> GenesisBalances[a], Nonce |-> 0]]

\* The transactions and blocks offered to the ledger. from is the account
\* tx.FromAccount() recovers from the signature, "badsig" when it fails.
GasPrices == {1, 2}
GasUnits == {2}
Values == {0, 1}
Tips == {0, 1}
Nonces == 0..2
Rewards == {1, 2}
Txs == [from : Acct \cup {"badsig"}, to : Acct, chainID : {ChainID, ChainID + 1},
        nonce : Nonces, value : Values, tip : Tips,
        gasPrice : GasPrices, gasUnits : GasUnits]

\* No ledger call yet.
NoCall == [op |-> "none", bnfc |-> "A", reward |-> 0,
           from |-> "badsig", to |-> "A", chainID |-> 0, nonce |-> 0,
           value |-> 0, tip |-> 0, gasPrice |-> 0, gasUnits |-> 0]

\* Database.ApplyMiningReward(block): the accounts after it.
ApplyMiningReward(acc, bnfcID, reward) ==
    LET account == Get(acc, bnfcID)
    IN Put(acc, bnfcID, [account EXCEPT !.Balance = U(@ + reward)])

\* Arithmetic that never wraps: the integers.
Exact(x) == x

\* The body of Database.ApplyTransaction(block, tx) over the arithmetic W:
\* the accounts after it and the error it returns. The three accounts are
\* loaded as copies, the gas fee is written back before the checks, the rest
\* after them.
ApplyTransactionIn(W(_), acc, bnfcID, tx) ==
    LET from0  == Get(acc, tx.from)
        to0    == Get(acc, tx.to)
        bnfc0  == Get(acc, bnfcID)
        fee0   == W(tx.gasPrice * tx.gasUnits)
        gasFee == IF fee0 > from0.Balance THEN from0.Balance ELSE fee0
        from1  == [from0 EXCEPT !.Balance = W(@ - gasFee)]
        bnfc1  == [bnfc0 EXCEPT !.Balance = W(@ + gasFee)]
        acc1   == Put(Put(acc, tx.from, from1), bnfcID, bnfc1)
        check  == IF tx.chainID # ChainID THEN "wrong chain id"
                  ELSE IF tx.from = tx.to THEN "sending money to yourself"
                  ELSE IF tx.nonce <= from1.Nonce THEN "nonce too small"
                  ELSE IF from1.Balance = 0 \/ from1.Balance < W(tx.value + tx.tip)
                       THEN "insufficient funds"
                  ELSE "nil"
        from2  == [Balance |-> W(W(from1.Balance - tx.value) - tx.tip),
                   Nonce |-> tx.nonce]
        to2    == [to0 EXCEPT !.Balance = W(@ + tx.value)]
        bnfc2  == [bnfc1 EXCEPT !.Balance = W(@ + tx.tip)]
        acc2   == Put(Put(Put(acc1, tx.from, from2), tx.to, to2), bnfcID, bnfc2)
    IN IF tx.from = "badsig" THEN [accounts |-> acc, err |-> "invalid signature"]
       ELSE IF check # "nil" THEN [accounts |-> acc1, err |-> check]
       ELSE [accounts |-> acc2, err |-> "nil"]

\* Database.ApplyTransaction(block, tx), in uint64.
ApplyTransaction(acc, bnfcID, tx) == ApplyTransactionIn(U, acc, bnfcID, tx)

\* Transactions with amounts at the top of the unsigned range: the products
\* and sums of these exceed the width.
WideTxs == [from : Acct, to : Acct, chainID : {ChainID}, nonce : {1, 2},
            value : {0, 1, Modulus - 1}, tip : Tips,
            gasPrice : GasPrices, gasUnits : {2, Modulus \div 2}]

\* The call ApplyTransaction(block, tx) of a block with beneficiary bnfcID.
applyCall(tx, bnfcID) ==
        LET r == ApplyTransaction(accounts, bnfcID, tx)
        IN /\ calls < MaxCalls
           /\ calls' = calls + 1
           /\ pre' = accounts
           /\ accounts' = r.accounts
           /\ callErr' = r.err
           /\ call' = [op |-> "tx", bnfc |-> bnfcID, reward |-> 0,
                       from |-> tx.from, to |-> tx.to, chainID |-> tx.chainID,
                       nonce |-> tx.nonce, value |-> tx.value, tip |-> tx.tip,
                       gasPrice |-> tx.gasPrice, gasUnits |-> tx.gasUnits]
           /\ okNonces' = IF r.err = "nil"
                          THEN [okNonces EXCEPT ![tx.from] = Append(@, tx.nonce)]
                          ELSE okNonces
           /\ UNCHANGED <<rewardTotal, workerVars>>

\* An ApplyTransaction call.
applyTransaction ==
    \E tx \in Txs, bnfcID \in Acct : applyCall(tx, bnfcID) /\ UNCHANGED dbVars

\* An ApplyTransaction call with amounts from the whole unsigned range.
applyTransactionWide ==
    \E tx \in WideTxs, bnfcID \in Acct : applyCall(tx, bnfcID) /\ UNCHANGED dbVars

\* The call ApplyMiningReward(block) of a block with beneficiary bnfcID.
rewardCall(bnfcID, reward) ==
        /\ calls < MaxCalls
        /\ calls' = calls + 1
        /\ pre' = accounts
        /\ accounts' = ApplyMiningReward(accounts, bnfcID, reward)
        /\ callErr' = "nil"
        /\ call' = [NoCall EXCEPT !.op = "reward", !.bnfc = bnfcID, !.reward = reward]
        /\ rewardTotal' = rewardTotal + reward
        /\ UNCHANGED <<okNonces, workerVars>>

\* An ApplyMiningReward call.
applyMiningReward ==
    \E bnfcID \in Acct, reward \in Rewards :
        rewardCall(bnfcID, reward) /\ UNCHANGED dbVars

\* runBCWorker has built the worker and is about to run the initial,
\* synchronous runPeerUpdatesOperation; the goroutines are not started.
InitWorker ==
    /\ pcMain = "initSync" /\ started = 0
    /\ pcPeer = "spawned" /\ pcMining = "spawned" /\ pcShare = "spawned"
    /\ shut = FALSE /\ tickerOn = TRUE /\ tickC = 0
    /\ peerUpdates = 0 /\ startMining = 0 /\ cancelMining = 0
    /\ txSharing = <<>>
    /\ mempool = 0 /\ txAdded = 0 /\ latest = 0
    /\ knownPeers \in 0..1
    /\ passLen = knownPeers /\ passIdx = 0 /\ passTruncs = 0 /\ passForked = FALSE
    /\ passErr = "none" /\ passSeen = 0
    /\ ctx = "none" /\ ctxCause = "none" /\ cancelG = "none" /\ miner = "none"
    /\ activeRuns = 0 /\ mineCalls = 0
    /\ burstCalls = 0 /\ burstAccepted = 0
    /\ cancelInRun = FALSE /\ cancelAfterDrain = FALSE /\ watcherGot = FALSE
    /\ staleCancel = FALSE
    /\ annState = "none" /\ annLen = 0 /\ annTried = 0
    /\ curBatch = 0
    /\ deqOpen = FALSE /\ shareIdx = 0 /\ sharePosts = <<>>

\* No ledger call was made.
InitCalls ==
    /\ call = NoCall /\ callErr = "none" /\ calls = 0
    /\ okNonces = [a \in Acct |-> <<>>]
    /\ rewardTotal = 0

\* New has returned a database over an empty storage.
InitLedger ==
    /\ accounts = GenesisAccounts /\ pre = GenesisAccounts
    /\ InitCalls
    /\ dbPc = "open" /\ storage = <<>> /\ latestBlock = 0
    /\ raState = "ok" /\ raRead = 0
    /\ raErrSeen = FALSE /\ raInvalidSeen = FALSE
    /\ mu = "free" /\ resetPc = "idle"

Init == InitWorker /\ InitLedger

\* ------------------------------------------------------------ the database

\* The blocks a storage may hold: one transaction each, a beneficiary and a
\* mining reward; valid says whether ValidateBlock accepts the block after
\* its predecessor.
StoredTxs == {[from |-> "A", to |-> "B", chainID |-> ChainID, nonce |-> 1,
               value |-> 1, tip |-> 0, gasPrice |-> 1, gasUnits |-> 2],
              [from |-> "B", to |-> "A", chainID |-> ChainID, nonce |-> 1,
               value |-> 0, tip |-> 1, gasPrice |-> 1, gasUnits |-> 2]}
StoredBlocks == [bnfc : {"M"}, reward : {1}, tx : StoredTxs, valid : BOOLEAN]
StoredChains == UNION {[1..n -> StoredBlocks] : n \in 0..MaxBlocks}

\* make(map[AccountID]Account)
EmptyAccounts == [a \in {} |-> ZeroAccount]

\* for accountID, balance := range genesis.Balances { db.accounts[accountID] = ... }
SeedGenesis(acc) ==
    [x \in (DOMAIN acc) \cup (DOMAIN GenesisBalances) |->
        IF x \in DOMAIN GenesisBalances
        THEN [Balance |-> GenesisBalances[x], Nonce |-> 0]
        ELSE acc[x]]

\* The replay loop of New: for every block, each transaction through
\* ApplyTransaction (its error dropped), then the mining reward.
RECURSIVE Replay(_, _)
Replay(acc, blocks) ==
    IF blocks = <<>> THEN acc
    ELSE LET b == Head(blocks)
             afterTx == ApplyTransaction(acc, b.bnfc, b.tx).accounts
         IN Replay(ApplyMiningReward(afterTx, b.bnfc, b.reward), Tail(blocks))

\* delete(db.accounts, accountID)
Remove(acc, id) == [x \in (DOMAIN acc) \ {id} |-> acc[x]]

\* What a call of iter.Next() gives, with what iter.Done() reports after it,
\* when raRead blocks were read: the next block of storage or a storage
\* error, and past the last block an empty block with Done() true. An
\* iterator may also stop at a storage error: Done() is true after it.
PairedResults ==
    IF raRead < Len(storage)
    THEN {[kind |-> "block", done |-> FALSE], [kind |-> "error", done |-> FALSE]}
    ELSE {[kind |-> "end", done |-> TRUE]}
NextResults == PairedResults \cup {[kind |-> "error", done |-> TRUE]}

\* One turn of the loop of ReadAllBlocks(evHandler, true), from iter.Next()
\* to the end of the body: Done() is looked at before the error.
readNext(res) ==
    /\ dbPc = "new" /\ raState = "reading"
    /\ raErrSeen' = (raErrSeen \/ res.kind = "error")
    /\ IF res.done
       THEN raState' = "ok" /\ UNCHANGED <<raRead, raInvalidSeen>>
       ELSE IF res.kind = "error"
       THEN raState' = "error" /\ UNCHANGED <<raRead, raInvalidSeen>>
       ELSE IF ~storage[raRead + 1].valid
       THEN raState' = "error" /\ raInvalidSeen' = TRUE /\ UNCHANGED raRead
       ELSE raState' = "reading" /\ raRead' = raRead + 1 /\ UNCHANGED raInvalidSeen
    /\ UNCHANGED <<accounts, pre, call, callErr, calls, okNonces, rewardTotal,
                   dbPc, storage, latestBlock, mu, resetPc, workerVars>>

\* ReadAllBlocks over an iterator that keeps the paired Next/Done contract.
readPaired == \E res \in PairedResults : readNext(res)

\* ReadAllBlocks over any iterator.
readAny == \E res \in NextResults : readNext(res)

\* New: ReadAllBlocks returned an error, New returns it and no database.
newFails ==
    /\ dbPc = "new" /\ raState = "error"
    /\ dbPc' = "failed"
    /\ UNCHANGED <<accounts, pre, call, callErr, calls, okNonces, rewardTotal,
                   storage, latestBlock, readVars, mu, resetPc, workerVars>>

\* New: ReadAllBlocks returned the blocks; seed genesis, set the latest block,
\* replay the blocks and return the database.
newReplays ==
    /\ dbPc = "new" /\ raState = "ok"
    /\ accounts' = Replay(SeedGenesis(EmptyAccounts), SubSeq(storage, 1, raRead))
    /\ pre' = accounts'
    /\ latestBlock' = raRead
    /\ dbPc' = "open"
    /\ UNCHANGED <<call, callErr, calls, okNonces, rewardTotal,
                   storage, readVars, mu, resetPc, workerVars>>

\* The operations that take db.mu.
LockedOps == {"Remove", "CopyAccounts", "ApplyMiningReward", "ApplyTransaction",
              "UpdateLatestBlock", "LatestBlock"}

\* db.mu.Lock() / db.mu.RLock() of one of them.
lock(op) ==
    /\ dbPc = "open" /\ mu = "free"
    /\ mu' = op
    /\ UNCHANGED <<accounts, pre, call, callErr, calls, okNonces, rewardTotal,
                   dbPc, storage, latestBlock, readVars, resetPc, workerVars>>

\* The body of ApplyTransaction under the lock, and its deferred Unlock.
lockedApplyTransaction ==
    /\ mu = "ApplyTransaction" /\ mu' = "free"
    /\ \E b \in StoredBlocks : applyCall(b.tx, b.bnfc)
    /\ UNCHANGED <<dbPc, storage, latestBlock, readVars, resetPc>>

\* The body of ApplyMiningReward under the lock, and its deferred Unlock.
lockedApplyMiningReward ==
    /\ mu = "ApplyMiningReward" /\ mu' = "free"
    /\ \E b \in StoredBlocks : rewardCall(b.bnfc, b.reward)
    /\ UNCHANGED <<dbPc, storage, latestBlock, readVars, resetPc>>

\* The body of Remove under the lock, and its deferred Unlock.
lockedRemove ==
    /\ mu = "Remove" /\ mu' = "free"
    /\ \E id \in Acct : accounts' = Remove(accounts, id)
    /\ pre' = accounts
    /\ UNCHANGED <<call, callErr, calls, okNonces, rewardTotal,
                   dbPc, storage, latestBlock, readVars, resetPc, workerVars>>

\* The body of UpdateLatestBlock under the lock, and its deferred Unlock.
lockedUpdateLatestBlock ==
    /\ mu = "UpdateLatestBlock" /\ mu' = "free"
    /\ \E n \in 0..MaxBlocks : latestBlock' = n
    /\ UNCHANGED <<accounts, pre, call, callErr, calls, okNonces, rewardTotal,
                   dbPc, storage, readVars, resetPc, workerVars>>

\* CopyAccounts and LatestBlock read under the read lock and release it.
lockedRead ==
    /\ mu \in {"CopyAccounts", "LatestBlock"} /\ mu' = "free"
    /\ UNCHANGED <<accounts, pre, call, callErr, calls, okNonces, rewardTotal,
                   dbPc, storage, latestBlock, readVars, resetPc, workerVars>>

\* Reset, statement by statement; it takes no lock. First db.storage.Reset(),
\* whose error is dropped: a reset that fails leaves the blocks in storage.
resetStorage(ok) ==
    /\ dbPc = "open" /\ resetPc = "idle"
    /\ storage' = IF ok THEN <<>> ELSE storage
    /\ resetPc' = "latestBlock"
    /\ UNCHANGED <<accounts, pre, call, callErr, calls, okNonces, rewardTotal,
                   dbPc, latestBlock, readVars, mu, workerVars>>

\* db.latestBlock = Block{}
resetLatestBlock ==
    /\ resetPc = "latestBlock"
    /\ latestBlock' = 0
    /\ resetPc' = "accounts"
    /\ UNCHANGED <<accounts, pre, call, callErr, calls, okNonces, rewardTotal,
                   dbPc, storage, readVars, mu, workerVars>>

\* db.accounts = make(map[AccountID]Account)
resetAccounts ==
    /\ resetPc = "accounts"
    /\ accounts' = EmptyAccounts
    /\ pre' = accounts
    /\ resetPc' = "seed"
    /\ UNCHANGED <<call, callErr, calls, okNonces, rewardTotal,
                   dbPc, storage, latestBlock, readVars, mu, workerVars>>

\* The genesis balances are written back and Reset returns.
resetSeed ==
    /\ resetPc = "seed"
    /\ accounts' = SeedGenesis(accounts)
    /\ pre' = accounts
    /\ resetPc' = "idle"
    /\ UNCHANGED <<call, callErr, calls, okNonces, rewardTotal,
                   dbPc, storage, latestBlock, readVars, mu, workerVars>>

\* New is called on a storage that holds any chain of blocks.
InitNew ==
    /\ InitWorker /\ knownPeers = 0
    /\ accounts = EmptyAccounts /\ pre = EmptyAccounts
    /\ InitCalls
    /\ dbPc = "new" /\ storage \in StoredChains /\ latestBlock = 0
    /\ raState = "reading" /\ raRead = 0
    /\ raErrSeen = FALSE /\ raInvalidSeen = FALSE
    /\ mu = "free" /\ resetPc = "idle"

\* New alone, over any iterator.
NextReplay == readAny \/ newFails \/ newReplays
SpecReplay == InitNew /\ [][NextReplay]_vars

\* New over an iterator that keeps the contract, then the operations of the
\* database running concurrently.
Reset ==
    \/ (\E ok \in BOOLEAN : resetStorage(ok))
    \/ resetLatestBlock \/ resetAccounts \/ resetSeed
Locked ==
    \/ (\E op \in LockedOps : lock(op))
    \/ lockedApplyTransaction \/ lockedApplyMiningReward \/ lockedRemove
    \/ lockedUpdateLatestBlock \/ lockedRead
NextDatabase == readPaired \/ newFails \/ newReplays \/ Reset \/ Locked
SpecDatabase == InitNew /\ [][NextDatabase]_vars

\* ------------------------------------------------------- signal channels

\* select { case ch <- true: default: } on a channel holding n signals.
OfferAlways(n, cap) == n + 1
Offer(n, cap) == IF n < cap THEN n + 1 ELSE n

\* select { case bw.txSharing <- txs: default: }
OfferTx(q, txs) == IF Len(q) < TxSharingCap THEN Append(q, txs) ELSE q

\* runBCWorker has returned the worker, so its methods can be called.
Returned == pcMain \notin {"initSync", "waitStarted"}

\* The mining goroutine is between the dequeue of a startMining signal and
\* the end of the mining it leads to.
InRun == pcMining \in {"chk", "drain", "chkLen", "mining"}
\* ... and past the drain of cancelMining.
Drained == pcMining \in {"chkLen", "mining"}

\* The select of signalStartMining, with the history of the burst.
sendStartMining ==
    /\ startMining' = Offer(startMining, startMiningCap)
    /\ burstCalls' = IF burstCalls = 0 THEN 1 ELSE 2
    /\ burstAccepted' = IF startMining < startMining' THEN burstAccepted + 1
                        ELSE burstAccepted

\* The select of signalCancelMining, with the history of the run.
sendCancelMining ==
    /\ cancelMining' = Offer(cancelMining, cancelMiningCap)
    /\ cancelInRun' = (cancelInRun \/ InRun)
    /\ cancelAfterDrain' = (cancelAfterDrain \/ Drained)
    /\ UNCHANGED <<watcherGot, staleCancel>>

signalPeerUpdatesBlocking ==
    /\ Returned
    /\ peerUpdates < peerUpdatesCap
    /\ peerUpdates' = peerUpdates + 1
    /\ UNCHANGED <<mainVars, pcPeer, pcMining, pcShare, shut, tickerOn, tickC,
                   startMining, cancelMining, txSharing, stateVars, passVars,
                   runVars, burstVars, cancelHist, curBatch, shareVars>>

signalPeerUpdates ==
    /\ Returned
    /\ peerUpdates' = Offer(peerUpdates, peerUpdatesCap)
    /\ UNCHANGED <<mainVars, pcPeer, pcMining, pcShare, shut, tickerOn, tickC,
                   startMining, cancelMining, txSharing, stateVars, passVars,
                   runVars, burstVars, cancelHist, curBatch, shareVars>>

signalStartMining ==
    /\ Returned
    /\ sendStartMining
    /\ UNCHANGED <<mainVars, pcPeer, pcMining, pcShare, shut, tickerOn, tickC,
                   peerUpdates, cancelMining, txSharing, stateVars, passVars,
                   runVars, cancelHist, curBatch, shareVars>>

signalCancelMining ==
    /\ Returned
    /\ sendCancelMining
    /\ UNCHANGED <<mainVars, pcPeer, pcMining, pcShare, shut, tickerOn, tickC,
                   peerUpdates, startMining, txSharing, stateVars, passVars,
                   runVars, burstVars, curBatch, shareVars>>

signalShareTransactions(txs) ==
    /\ Returned
    /\ txSharing' = OfferTx(txSharing, txs)
    /\ UNCHANGED <<mainVars, pcPeer, pcMining, pcShare, shut, tickerOn, tickC,
                   peerUpdates, startMining, cancelMining, stateVars, passVars,
                   runVars, burstVars, cancelHist, curBatch, shareVars>>

\* The RPC layer accepts a transaction into the mempool.
addTx ==
    /\ txAdded < MaxTx
    /\ txAdded' = txAdded + 1
    /\ mempool' = mempool + 1
    /\ UNCHANGED <<mainVars, pcPeer, pcMining, pcShare, chanVars, latest,
                   knownPeers, ledgerVars, passVars, runVars, burstVars,
                   cancelHist, curBatch, shareVars>>

\* time.Ticker: a tick is delivered unless one is pending or the ticker is stopped.
tick ==
    /\ tickerOn /\ tickC = 0
    /\ tickC' = 1
    /\ UNCHANGED <<mainVars, pcPeer, pcMining, pcShare, shut, tickerOn,
                   peerUpdates, startMining, cancelMining, txSharing, stateVars,
                   passVars, runVars, burstVars, cancelHist, curBatch, shareVars>>

\* ------------------------------------------------- runBCWorker, shutdown

\* A goroutine's send on hasStarted meets one receive of runBCWorker.
hasStarted ==
    /\ pcMain = "waitStarted"
    /\ started < NumOperations
    /\ \/ pcPeer = "spawned" /\ pcPeer' = "begin" /\ UNCHANGED <<pcMining, pcShare>>
       \/ pcMining = "spawned" /\ pcMining' = "begin" /\ UNCHANGED <<pcPeer, pcShare>>
       \/ pcShare = "spawned" /\ pcShare' = "begin" /\ UNCHANGED <<pcPeer, pcMining>>
    /\ started' = started + 1
    /\ UNCHANGED <<pcMain, chanVars, stateVars, passVars, runVars, burstVars,
                   cancelHist, curBatch, shareVars>>

\* runBCWorker returning after the first receive from hasStarted.
runBCWorkerReturnEarly ==
    /\ pcMain = "waitStarted"
    /\ started >= 1
    /\ pcMain' = "running"
    /\ UNCHANGED <<started, pcPeer, pcMining, pcShare, chanVars, stateVars,
                   passVars, runVars, burstVars, cancelHist, curBatch, shareVars>>

\* runBCWorker: the loop of receives from hasStarted has ended; return &bw.
runBCWorkerReturn ==
    /\ pcMain = "waitStarted"
    /\ started = NumOperations
    /\ pcMain' = "running"
    /\ UNCHANGED <<started, pcPeer, pcMining, pcShare, chanVars, stateVars,
                   passVars, runVars, burstVars, cancelHist, curBatch, shareVars>>

\* op(): the goroutine reaches the select of its loop.
enterLoop ==
    /\ \/ pcPeer = "begin" /\ pcPeer' = "select" /\ UNCHANGED <<pcMining, pcShare>>
       \/ pcMining = "begin" /\ pcMining' = "select" /\ UNCHANGED <<pcPeer, pcShare>>
       \/ pcShare = "begin" /\ pcShare' = "select" /\ UNCHANGED <<pcPeer, pcMining>>
    /\ UNCHANGED <<mainVars, chanVars, stateVars, passVars, runVars, burstVars,
                   cancelHist, curBatch, shareVars>>

shutdownStopTicker ==
    /\ pcMain = "running"
    /\ tickerOn' = FALSE
    /\ pcMain' = "sdCancel"
    /\ UNCHANGED <<started, pcPeer, pcMining, pcShare, shut, tickC, peerUpdates,
                   startMining, cancelMining, txSharing, stateVars, passVars,
                   runVars, burstVars, cancelHist, curBatch, shareVars>>

shutdownCancel ==
    /\ pcMain = "sdCancel"
    /\ sendCancelMining
    /\ pcMain' = "sdClose"
    /\ UNCHANGED <<started, pcPeer, pcMining, pcShare, shut, tickerOn, tickC,
                   peerUpdates, startMining, txSharing, stateVars, passVars,
                   runVars, burstVars, curBatch, shareVars>>

shutdownClose ==
    /\ pcMain = "sdClose"
    /\ shut' = TRUE
    /\ pcMain' = "sdWait"
    /\ UNCHANGED <<started, pcPeer, pcMining, pcShare, tickerOn, tickC,
                   peerUpdates, startMining, cancelMining, txSharing, stateVars,
                   passVars, runVars, burstVars, cancelHist, curBatch, shareVars>>

\* bw.wg.Wait()
shutdownWait ==
    /\ pcMain = "sdWait"
    /\ pcPeer = "exited" /\ pcMining = "exited" /\ pcShare = "exited"
    /\ pcMain' = "sdDone"
    /\ UNCHANGED <<started, pcPeer, pcMining, pcShare, chanVars, stateVars,
                   passVars, runVars, burstVars, cancelHist, curBatch, shareVars>>

\* ------------------------------------------------------- peer goroutine

\* select of peerOperations: case <-bw.peerUpdates
peerRecvUpdates ==
    /\ pcPeer = "select" /\ peerUpdates > 0
    /\ peerUpdates' = peerUpdates - 1
    /\ pcPeer' = "chk"
    /\ UNCHANGED <<mainVars, pcMining, pcShare, shut, tickerOn, tickC,
                   startMining, cancelMining, txSharing, stateVars, passVars,
                   runVars, burstVars, cancelHist, curBatch, shareVars>>

\* select of peerOperations: case <-bw.ticker.C
peerRecvTick ==
    /\ pcPeer = "select" /\ tickC > 0
    /\ tickC' = tickC - 1
    /\ pcPeer' = "chk"
    /\ UNCHANGED <<mainVars, pcMining, pcShare, shut, tickerOn, peerUpdates,
                   startMining, cancelMining, txSharing, stateVars, passVars,
                   runVars, burstVars, cancelHist, curBatch, shareVars>>

\* select of peerOperations: case <-bw.shut
peerExit ==
    /\ pcPeer = "select" /\ shut
    /\ pcPeer' = "exited"
    /\ UNCHANGED <<mainVars, pcMining, pcShare, chanVars, stateVars, passVars,
                   runVars, burstVars, cancelHist, curBatch, shareVars>>

\* if !bw.isShutdown() { bw.runPeerUpdatesOperation() }: the pass starts
\* with a copy of the known peers.
peerCheck ==
    /\ pcPeer = "chk"
    /\ IF shut
       THEN pcPeer' = "select" /\ UNCHANGED passVars
       ELSE /\ pcPeer' = "run"
            /\ passLen' = knownPeers /\ passIdx' = 0
            /\ passTruncs' = 0 /\ passForked' = FALSE
            /\ passErr' = "none" /\ passSeen' = 0
    /\ UNCHANGED <<mainVars, pcMining, pcShare, chanVars, stateVars, runVars,
                   burstVars, cancelHist, curBatch, shareVars>>

\* A pass of runPeerUpdatesOperation is running, in runBCWorker or in the
\* peer goroutine.
PassActive == pcMain = "initSync" \/ pcPeer = "run"

\* The error writePeerBlocks returns: the send's, else the first one
\* WriteNextBlock returns (failAt = 0: every block was written).
writePeerBlocks(sendOK, failAt, kind) ==
    IF ~sendOK THEN "sendErr" ELSE IF failAt = 0 THEN "nil" ELSE kind

\* How many of the n fetched blocks writePeerBlocks wrote.
blocksWritten(sendOK, n, failAt) ==
    IF ~sendOK THEN 0 ELSE IF failAt = 0 THEN n ELSE failAt - 1

\* errors.Is(err, ErrChainForked): Truncate and leave the peer loop.
isForkedAny(err) == err # "nil"
isForked(err) == err = "ErrChainForked"

\* State.Truncate removes the tip block.
Truncate(n) == Max(n - 1, 0)

WriteErrors == {"ErrChainForked", "invalid"}

\* One iteration of the peer loop, for the next peer of the copy.
\*   statusOK, peerLatest: queryPeerStatus (the zero PeerStatus on error);
\*   newPeers: peers addNewPeers adds; sendOK, failAt, kind: writePeerBlocks;
\*   removed: mempool transactions the written blocks contain.
runPeerUpdatesIter(statusOK, peerLatest, newPeers, sendOK, failAt, kind, removed) ==
    LET reported == IF statusOK THEN peerLatest ELSE 0
        added    == IF statusOK THEN newPeers ELSE 0
        ahead    == reported > latest
        n        == reported - latest
        err      == IF ahead THEN writePeerBlocks(sendOK, failAt, kind) ELSE "nil"
        written  == IF ahead THEN blocksWritten(sendOK, n, failAt) ELSE 0
    IN
    /\ PassActive /\ passIdx < passLen
    /\ knownPeers + added <= MaxPeers
    /\ ahead => failAt <= n
    /\ ~ahead => (sendOK /\ failAt = 0 /\ kind = "invalid")
    /\ ~(ahead /\ sendOK) => removed = 0
    /\ removed <= Min(mempool, written * TransPerBlock)
    /\ (failAt = 0) => kind = "invalid"
    /\ knownPeers' = knownPeers + added
    /\ mempool' = mempool - removed
    /\ IF isForked(err)
       THEN /\ latest' = Truncate(latest + written)
            /\ passTruncs' = passTruncs + 1
            /\ passIdx' = passLen
       ELSE /\ latest' = latest + written
            /\ passTruncs' = passTruncs
            /\ passIdx' = passIdx + 1
    /\ passForked' = (passForked \/ err = "ErrChainForked")
    /\ passErr' = IF ahead THEN err ELSE "none"
    /\ passSeen' = passSeen + 1
    /\ UNCHANGED <<mainVars, pcPeer, pcMining, pcShare, chanVars, txAdded,
                   ledgerVars, passLen, runVars, burstVars, cancelHist, curBatch, shareVars>>

runPeerUpdatesStep ==
    \E statusOK \in BOOLEAN, peerLatest \in 0..MaxHeight, newPeers \in 0..1,
       sendOK \in BOOLEAN, failAt \in 0..MaxHeight, kind \in WriteErrors,
       removed \in 0..1 :
        runPeerUpdatesIter(statusOK, peerLatest, newPeers, sendOK, failAt, kind, removed)

\* The peer loop is exhausted or was left: runPeerUpdatesOperation returns.
runPeerUpdatesDone ==
    /\ PassActive /\ passIdx >= passLen
    /\ IF pcMain = "initSync"
       THEN pcMain' = "waitStarted" /\ UNCHANGED pcPeer
       ELSE pcPeer' = "select" /\ UNCHANGED pcMain
    /\ UNCHANGED <<started, pcMining, pcShare, chanVars, stateVars, passVars,
                   runVars, burstVars, cancelHist, curBatch, shareVars>>

\* ------------------------------------------------------ share goroutine

\* The length of the copy of the peer list runShareTxOperation iterates.
shareLen == Len(sharePosts)

\* A send of this operation returned an error.
shareFailed == \E i \in 1..shareLen : \E k \in 1..Len(sharePosts[i]) : ~sharePosts[i][k]

\* select of shareTxOperations: case txs := <-bw.txSharing
shareRecv ==
    /\ pcShare = "select" /\ Len(txSharing) > 0
    /\ curBatch' = Head(txSharing)
    /\ txSharing' = Tail(txSharing)
    /\ deqOpen' = (~shut /\ knownPeers > 0)
    /\ pcShare' = "chk"
    /\ UNCHANGED <<mainVars, pcPeer, pcMining, shut, tickerOn, tickC,
                   peerUpdates, startMining, cancelMining, stateVars, passVars,
                   runVars, burstVars, cancelHist, shareIdx, sharePosts>>

shareExit ==
    /\ pcShare = "select" /\ shut
    /\ pcShare' = "exited"
    /\ UNCHANGED <<mainVars, pcPeer, pcMining, chanVars, stateVars, passVars,
                   runVars, burstVars, cancelHist, curBatch, shareVars>>

\* if !bw.isShutdown() { bw.runShareTxOperation(txs) }: the operation starts
\* with a copy of the known peers.
shareCheck ==
    /\ pcShare = "chk"
    /\ IF shut
       THEN /\ pcShare' = "select" /\ curBatch' = 0 /\ deqOpen' = FALSE
            /\ UNCHANGED <<shareIdx, sharePosts>>
       ELSE /\ pcShare' = "run"
            /\ shareIdx' = 0
            /\ sharePosts' = [i \in 1..knownPeers |-> <<>>]
            /\ UNCHANGED <<curBatch, deqOpen>>
    /\ UNCHANGED <<mainVars, pcPeer, pcMining, chanVars, stateVars, passVars,
                   runVars, burstVars, cancelHist>>

\* The loop of runShareTxOperation leaving at the first send that fails.
shareSendStops(ok) ==
    /\ pcShare = "run" /\ shareIdx < shareLen
    /\ sharePosts' = [sharePosts EXCEPT ![shareIdx + 1] = Append(@, ok)]
    /\ shareIdx' = IF ok THEN shareIdx + 1 ELSE shareLen
    /\ UNCHANGED <<mainVars, pcPeer, pcMining, pcShare, chanVars, stateVars,
                   passVars, runVars, burstVars, cancelHist, curBatch, deqOpen>>

\* One turn of the loop of runShareTxOperation: POST /tx/add to the next
\* peer of the copy; an error is logged and the loop goes on.
shareSend(ok) ==
    /\ pcShare = "run" /\ shareIdx < shareLen
    /\ sharePosts' = [sharePosts EXCEPT ![shareIdx + 1] = Append(@, ok)]
    /\ shareIdx' = shareIdx + 1
    /\ UNCHANGED <<mainVars, pcPeer, pcMining, pcShare, chanVars, stateVars,
                   passVars, runVars, burstVars, cancelHist, curBatch, deqOpen>>

\* The loop of runShareTxOperation is over: the operation returns.
runShareTxOperation ==
    /\ pcShare = "run" /\ shareIdx >= shareLen
    /\ pcShare' = "select" /\ curBatch' = 0 /\ deqOpen' = FALSE
    /\ shareIdx' = 0 /\ sharePosts' = <<>>
    /\ UNCHANGED <<mainVars, pcPeer, pcMining, chanVars, stateVars, passVars,
                   runVars, burstVars, cancelHist>>

\* ----------------------------------------------------- mining goroutine

\* select of miningOperations: case <-bw.startMining
miningRecv ==
    /\ pcMining = "select" /\ startMining > 0
    /\ startMining' = startMining - 1
    /\ pcMining' = "chk"
    /\ burstCalls' = 0 /\ burstAccepted' = 0
    /\ cancelInRun' = FALSE /\ cancelAfterDrain' = FALSE /\ watcherGot' = FALSE
    /\ staleCancel' = (cancelMining > 0)
    /\ UNCHANGED <<mainVars, pcPeer, pcShare, shut, tickerOn, tickC,
                   peerUpdates, cancelMining, txSharing, stateVars, passVars,
                   runVars, curBatch, shareVars>>

\* select of miningOperations: case <-bw.shut
miningExit ==
    /\ pcMining = "select" /\ shut
    /\ pcMining' = "exited"
    /\ UNCHANGED <<mainVars, pcPeer, pcShare, chanVars, stateVars, passVars,
                   runVars, burstVars, cancelHist, curBatch, shareVars>>

\* Where the mining goroutine is once it has called runMiningOperation: in
\* it (the call is synchronous), at its first statement.
miningDispatchAsync == "select"
miningDispatch == "drain"

\* The mining goroutine calling runMiningOperation without asking isShutdown.
miningCheckNoShutdown ==
    /\ pcMining = "chk"
    /\ pcMining' = miningDispatch /\ activeRuns' = activeRuns + 1
    /\ UNCHANGED <<mainVars, pcPeer, pcShare, chanVars, stateVars, passVars,
                   ctx, ctxCause, cancelG, miner, mineCalls, annVars, burstVars,
                   cancelHist, curBatch, shareVars>>

\* if !bw.isShutdown() { bw.runMiningOperation() }
miningCheck ==
    /\ pcMining = "chk"
    /\ IF shut
       THEN pcMining' = "select" /\ UNCHANGED activeRuns
       ELSE pcMining' = miningDispatch /\ activeRuns' = activeRuns + 1
    /\ UNCHANGED <<mainVars, pcPeer, pcShare, chanVars, stateVars, passVars,
                   ctx, ctxCause, cancelG, miner, mineCalls, annVars, burstVars,
                   cancelHist, curBatch, shareVars>>

\* runMiningOperation without the drain of cancelMining.
runMiningNoDrain ==
    /\ pcMining = "drain"
    /\ pcMining' = "chkLen"
    /\ UNCHANGED <<mainVars, pcPeer, pcShare, chanVars, stateVars, passVars,
                   runVars, burstVars, cancelHist, curBatch, shareVars>>

\* runMiningOperation: select { case <-bw.cancelMining: default: }
runMiningDrain ==
    /\ pcMining = "drain"
    /\ cancelMining' = IF cancelMining > 0 THEN cancelMining - 1 ELSE cancelMining
    /\ pcMining' = "chkLen"
    /\ UNCHANGED <<mainVars, pcPeer, pcShare, shut, tickerOn, tickC,
                   peerUpdates, startMining, txSharing, stateVars, passVars,
                   runVars, burstVars, cancelHist, curBatch, shareVars>>

\* The mempool check with the drain of cancelMining placed after it.
runMiningCheckLenDrains ==
    /\ pcMining = "chkLen"
    /\ IF mempool < TransPerBlock
       THEN /\ pcMining' = "rearm"
            /\ UNCHANGED <<ctx, cancelG, miner, mineCalls>>
       ELSE /\ pcMining' = "mining"
            /\ ctx' = "live" /\ cancelG' = "wait" /\ miner' = "mining"
            /\ mineCalls' = mineCalls + 1
    /\ cancelMining' = 0
    /\ UNCHANGED <<mainVars, pcPeer, pcShare, shut, tickerOn, tickC,
                   peerUpdates, startMining, txSharing, stateVars, passVars,
                   ctxCause, activeRuns, annVars, burstVars, cancelHist, curBatch, shareVars>>

\* runMiningOperation: the mempool check; then the context, the cancel
\* watcher and the miner, which calls MineNewBlock.
runMiningCheckLen ==
    /\ pcMining = "chkLen"
    /\ IF mempool < TransPerBlock
       THEN /\ pcMining' = "rearm"
            /\ UNCHANGED <<ctx, cancelG, miner, mineCalls>>
       ELSE /\ pcMining' = "mining"
            /\ ctx' = "live" /\ cancelG' = "wait" /\ miner' = "mining"
            /\ mineCalls' = mineCalls + 1
    /\ UNCHANGED <<mainVars, pcPeer, pcShare, chanVars, stateVars, passVars,
                   ctxCause, activeRuns, annVars, burstVars, cancelHist, curBatch, shareVars>>

\* cancel(): the first cancellation of the context names its cause.
cancelled(cause) ==
    /\ ctx' = "cancelled"
    /\ ctxCause' = IF ctx = "live" THEN cause ELSE ctxCause


\* The cancel watcher: case <-bw.cancelMining, then the deferred cancel().
cancelGRecv ==
    /\ pcMining = "mining" /\ cancelG = "wait" /\ cancelMining > 0
    /\ cancelMining' = cancelMining - 1
    /\ cancelG' = "done"
    /\ watcherGot' = TRUE
    /\ cancelled("signal")
    /\ UNCHANGED <<mainVars, pcPeer, pcMining, pcShare, shut, tickerOn, tickC,
                   peerUpdates, startMining, txSharing, stateVars, passVars,
                   miner, activeRuns, mineCalls, annVars, burstVars, cancelInRun,
                   cancelAfterDrain, staleCancel, curBatch, shareVars>>

\* The cancel watcher without its case <-ctx.Done().
cancelGNoCtxDone ==
    /\ FALSE
    /\ UNCHANGED vars

\* The cancel watcher: case <-ctx.Done()
cancelGCtxDone ==
    /\ pcMining = "mining" /\ cancelG = "wait" /\ ctx = "cancelled"
    /\ cancelG' = "done"
    /\ UNCHANGED <<mainVars, pcPeer, pcMining, pcShare, chanVars, stateVars,
                   passVars, ctx, ctxCause, miner, activeRuns, mineCalls, annVars,
                   burstVars, cancelHist, curBatch, shareVars>>

\* context.WithTimeout(..., 2*time.Minute): the deadline passes.
ctxDeadline ==
    /\ ctx = "live"
    /\ cancelled("deadline")
    /\ UNCHANGED <<mainVars, pcPeer, pcMining, pcShare, chanVars, stateVars,
                   passVars, cancelG, miner, activeRuns, mineCalls, annVars, burstVars,
                   cancelHist, curBatch, shareVars>>

\* The miner goroutine returns: its deferred cancel() and wg.Done().
minerReturns ==
    /\ miner' = "done"
    /\ cancelled("miner")
    /\ UNCHANGED <<mainVars, pcPeer, pcMining, pcShare, chanVars, txAdded,
                   knownPeers, ledgerVars, passVars, cancelG, activeRuns,
                   burstVars, cancelHist, curBatch, shareVars>>

\* MineNewBlock finds a block: TransPerBlock transactions leave the mempool
\* and the block becomes the latest one. The miner goes on to
\* sendBlockToPeers, which copies the list of known peers.
minerSuccess ==
    /\ miner = "mining" /\ ctx = "live" /\ mempool >= TransPerBlock
    /\ mempool' = mempool - TransPerBlock
    /\ latest' = latest + 1
    /\ mineCalls' = mineCalls - 1
    /\ miner' = "announce"
    /\ annState' = "sending" /\ annLen' = knownPeers /\ annTried' = 0
    /\ UNCHANGED <<mainVars, pcPeer, pcMining, pcShare, chanVars, txAdded,
                   knownPeers, ledgerVars, passVars, ctx, ctxCause, cancelG,
                   activeRuns, burstVars, cancelHist, curBatch, shareVars>>

\* sendBlockToPeers: one turn of its loop, POST /block/next to the next peer
\* of the copy, returning at the first send that fails; or its return after
\* the last peer. The miner goroutine then logs and returns.
sendBlockToPeers(ok) ==
    /\ miner = "announce"
    /\ UNCHANGED <<mempool, latest, mineCalls, annLen>>
    /\ IF annTried < annLen /\ ok
       THEN /\ annTried' = annTried + 1
            /\ UNCHANGED <<annState, miner, ctx, ctxCause>>
            /\ UNCHANGED <<mainVars, pcPeer, pcMining, pcShare, chanVars, txAdded,
                           knownPeers, ledgerVars, passVars, cancelG, activeRuns,
                           burstVars, cancelHist, curBatch, shareVars>>
       ELSE /\ annTried' = IF annTried < annLen THEN annTried + 1 ELSE annTried
            /\ annState' = "returned"
            /\ minerReturns

\* MineNewBlock observes the cancelled context and returns its error.
minerCancelled ==
    /\ miner = "mining" /\ ctx = "cancelled"
    /\ mineCalls' = mineCalls - 1
    /\ UNCHANGED <<mempool, latest, annVars>>
    /\ minerReturns

\* MineNewBlock returns another error (ErrNotEnoughTransactions included:
\* the worker only logs which).
minerError ==
    /\ miner = "mining"
    /\ mineCalls' = mineCalls - 1
    /\ UNCHANGED <<mempool, latest, annVars>>
    /\ minerReturns

\* runMiningOperation waiting for the miner alone: it returns with the
\* cancel watcher still in its select.
runMiningWaitMiner ==
    /\ pcMining = "mining" /\ miner = "done"
    /\ pcMining' = "rearm"
    /\ ctx' = "none" /\ ctxCause' = "none" /\ miner' = "none"
    /\ cancelG' = IF cancelG = "done" THEN "none" ELSE cancelG
    /\ annState' = "none" /\ annLen' = 0 /\ annTried' = 0
    /\ UNCHANGED <<mainVars, pcPeer, pcShare, chanVars, stateVars, passVars,
                   activeRuns, mineCalls, burstVars, cancelHist, curBatch, shareVars>>

\* wg.Wait() of runMiningOperation, then its deferred cancel().
runMiningWait ==
    /\ pcMining = "mining" /\ cancelG = "done" /\ miner = "done"
    /\ pcMining' = "rearm"
    /\ ctx' = "none" /\ ctxCause' = "none" /\ cancelG' = "none" /\ miner' = "none"
    /\ annState' = "none" /\ annLen' = 0 /\ annTried' = 0
    /\ UNCHANGED <<mainVars, pcPeer, pcShare, chanVars, stateVars, passVars,
                   activeRuns, mineCalls, burstVars, cancelHist, curBatch, shareVars>>

\* The deferred function of runMiningOperation without its re-signal.
runMiningNoRearm ==
    /\ pcMining = "rearm"
    /\ pcMining' = "select"
    /\ activeRuns' = activeRuns - 1
    /\ cancelInRun' = FALSE /\ cancelAfterDrain' = FALSE /\ watcherGot' = FALSE
    /\ staleCancel' = FALSE
    /\ UNCHANGED <<mainVars, pcPeer, pcShare, chanVars, stateVars, passVars,
                   ctx, ctxCause, cancelG, miner, mineCalls, annVars, burstVars, curBatch, shareVars>>

\* The deferred function of runMiningOperation: signal startMining again
\* when the mempool still holds a block's worth; the operation returns.
runMiningRearm ==
    /\ pcMining = "rearm"
    /\ IF mempool >= TransPerBlock
       THEN sendStartMining
       ELSE UNCHANGED <<startMining, burstVars>>
    /\ pcMining' = "select"
    /\ activeRuns' = activeRuns - 1
    /\ cancelInRun' = FALSE /\ cancelAfterDrain' = FALSE /\ watcherGot' = FALSE
    /\ staleCancel' = FALSE
    /\ UNCHANGED <<mainVars, pcPeer, pcShare, shut, tickerOn, tickC,
                   peerUpdates, cancelMining, txSharing, stateVars, passVars,
                   ctx, ctxCause, cancelG, miner, mineCalls, annVars, curBatch, shareVars>>

\* ------------------------------------------------------ specifications

\* What runBCWorker, shutdown and the goroutines' start and exit do.
Lifecycle ==
    \/ runPeerUpdatesDone \/ hasStarted \/ runBCWorkerReturn \/ enterLoop
    \/ shutdownStopTicker \/ shutdownCancel \/ shutdownClose \/ shutdownWait
    \/ peerExit \/ miningExit \/ shareExit

\* The mining goroutine and what signals it.
Mining ==
    \/ signalStartMining \/ signalCancelMining \/ addTx
    \/ miningRecv \/ miningCheck
    \/ runMiningDrain \/ runMiningCheckLen
    \/ cancelGRecv \/ cancelGCtxDone \/ ctxDeadline
    \/ minerSuccess \/ minerCancelled \/ minerError
    \/ (\E ok \in BOOLEAN : sendBlockToPeers(ok))
    \/ runMiningWait \/ runMiningRearm

\* The peer goroutine and what signals it.
Peer ==
    \/ signalPeerUpdates \/ tick
    \/ peerRecvUpdates \/ peerRecvTick \/ peerCheck
    \/ runPeerUpdatesStep

\* The share-tx goroutine and what signals it.
Share ==
    \/ \E txs \in Batches : signalShareTransactions(txs)
    \/ shareRecv \/ shareCheck \/ runShareTxOperation

\* The ledger's writers.
Ledger == applyTransaction \/ applyMiningReward

\* The whole node.
Next ==
    \/ Lifecycle \/ Mining \/ Peer \/ Share \/ Ledger
    \/ (\E ok \in BOOLEAN : shareSend(ok))

Spec == Init /\ [][Next]_vars

\* The mining goroutine with the other two idle in their selects: the
\* goroutines share only shut, the mempool and the latest block.
NextMining == Lifecycle \/ Mining

\* The node starts without a known peer: the initial pass has nothing to do.
InitAlone == Init /\ knownPeers = 0

SpecMining == InitAlone /\ [][NextMining]_vars

\* runBCWorker runs to its return and the goroutines to their loops.
StartupFair ==
    /\ WF_vars(runPeerUpdatesDone) /\ WF_vars(hasStarted)
    /\ WF_vars(runBCWorkerReturn) /\ WF_vars(enterLoop)

\* The mining goroutine and the two goroutines of a run are scheduled; the
\* miner observes a cancelled context.
MiningFair ==
    /\ WF_vars(miningRecv \/ miningCheck \/ runMiningDrain \/ runMiningCheckLen
                  \/ runMiningWait \/ runMiningRearm)
    /\ WF_vars(cancelGRecv \/ cancelGCtxDone)
    /\ WF_vars(minerCancelled)
    /\ WF_vars(\E ok \in BOOLEAN : sendBlockToPeers(ok))

\* The mining goroutine under the scheduling of its goroutines, with cancel
\* signals and shutdown arriving at any time or never.
SpecWatcher == InitAlone /\ [][NextMining]_vars /\ StartupFair /\ MiningFair

\* Mining with no cancel signal and no shutdown. A miner that is given a
\* live context again and again finds a block at last.
NextRearm ==
    \/ runPeerUpdatesDone \/ hasStarted \/ runBCWorkerReturn \/ enterLoop
    \/ signalStartMining \/ addTx
    \/ miningRecv \/ miningCheck
    \/ runMiningDrain \/ runMiningCheckLen
    \/ cancelGCtxDone \/ ctxDeadline
    \/ minerSuccess \/ minerCancelled \/ minerError
    \/ (\E ok \in BOOLEAN : sendBlockToPeers(ok))
    \/ runMiningWait \/ runMiningRearm

SpecRearm ==
    /\ InitAlone /\ [][NextRearm]_vars
    /\ StartupFair /\ MiningFair /\ SF_vars(minerSuccess)

\* The four signallers and the three goroutines that receive from them,
\* with an empty mempool: a mining run ends at its mempool check.
NextSignals ==
    \/ Lifecycle
    \/ signalStartMining \/ signalCancelMining
    \/ miningRecv \/ miningCheck \/ runMiningDrain \/ runMiningCheckLen
    \/ runMiningRearm
    \/ signalPeerUpdates \/ tick \/ peerRecvUpdates \/ peerRecvTick \/ peerCheck
    \/ Share

SpecSignals == InitAlone /\ [][NextSignals]_vars

\* The mempool receives one block's worth of transactions.
addTxBlock == txAdded < TransPerBlock /\ addTx

\* The three goroutines at work when shutdown is called: peer passes on
\* request, one batch shared again and again, one block's worth of
\* transactions to mine.
NextShutdown ==
    \/ Lifecycle
    \/ signalStartMining \/ signalCancelMining \/ addTxBlock
    \/ miningRecv \/ miningCheck \/ runMiningDrain \/ runMiningCheckLen
    \/ cancelGRecv \/ cancelGCtxDone \/ ctxDeadline
    \/ minerSuccess \/ minerCancelled \/ minerError
    \/ (\E ok \in BOOLEAN : sendBlockToPeers(ok))
    \/ runMiningWait \/ runMiningRearm
    \/ signalPeerUpdates \/ peerRecvUpdates \/ peerCheck
    \/ signalShareTransactions(1) \/ shareRecv \/ shareCheck \/ runShareTxOperation

\* Every goroutine is scheduled, every operation in progress finishes
\* (mining by its deadline at the latest), shutdown runs on once called, and
\* a select whose shut case is ready again and again takes it at last.
ShutdownFair ==
    /\ WF_vars(enterLoop)
    /\ WF_vars(shutdownCancel \/ shutdownClose \/ shutdownWait)
    /\ WF_vars(peerCheck \/ runPeerUpdatesDone) /\ SF_vars(peerExit)
    /\ WF_vars(shareCheck \/ runShareTxOperation) /\ SF_vars(shareExit)
    /\ MiningFair /\ WF_vars(ctxDeadline) /\ SF_vars(miningExit)

SpecShutdown == InitAlone /\ [][NextShutdown]_vars /\ ShutdownFair

\* The ledger alone, from the genesis accounts.
SpecLedger == InitAlone /\ [][Ledger]_vars

\* The ledger alone, offered amounts from the whole unsigned range.
LedgerWide == applyTransactionWide \/ applyMiningReward
SpecLedgerWide == InitAlone /\ [][LedgerWide]_vars

\* Mining with peers to announce the block to: the peers are those of the
\* configuration and those the initial peer pass adds.
NextAnnounce ==
    \/ Lifecycle
    \/ runPeerUpdatesStep
    \/ signalStartMining \/ addTxBlock
    \/ miningRecv \/ miningCheck
    \/ runMiningDrain \/ runMiningCheckLen
    \/ cancelGCtxDone
    \/ minerSuccess
    \/ (\E ok \in BOOLEAN : sendBlockToPeers(ok))
    \/ runMiningWait \/ runMiningRearm

SpecAnnounce == Init /\ [][NextAnnounce]_vars

\* The share-tx goroutine with peers to send to: those of the configuration
\* and those the initial peer pass adds.
NextShare ==
    \/ Lifecycle
    \/ runPeerUpdatesStep
    \/ Share
    \/ (\E ok \in BOOLEAN : shareSend(ok))

SpecShare == Init /\ [][NextShare]_vars

\* The peer goroutine with the other two idle in their selects.
NextPeer == Lifecycle \/ Peer

SpecPeer == Init /\ [][NextPeer]_vars

\* ------------------------------------------------- the mining goroutine

\* C1: at most one runMiningOperation, and so at most one MineNewBlock, is
\* in progress in every reachable state.
C1_OneMiningOperation ==
    /\ activeRuns <= 1
    /\ mineCalls <= 1
    /\ mineCalls = 1 => activeRuns = 1

\* A mining run is in flight while further start signals and a cancel
\* signal are pending and shutdown has begun.
C1_Witness ==
    /\ activeRuns = 1 /\ mineCalls = 1
    /\ startMining = 1 /\ burstCalls = 2
    /\ cancelMining = 1 /\ pcMain = "sdClose"

\* C2 (as stated): a signalCancelMining call made after the dequeue of
\* startMining and before the end of the run reaches the run's cancel
\* watcher: until the run ends the signal is pending or the watcher has
\* received it.
C2_CancelAfterDequeue ==
    (InRun /\ cancelInRun) => (cancelMining > 0 \/ watcherGot)

\* C2 (amended): a signalCancelMining call made after the run's drain of
\* cancelMining and before the end of the run is never lost: the signal is
\* pending or the run's cancel watcher has received it; and once the watcher
\* has received it the context is cancelled, by the signal unless the
\* deadline or the miner's return cancelled it first.
C2_CancelAfterDrain ==
    /\ (InRun /\ cancelAfterDrain) => (cancelMining > 0 \/ watcherGot)
    /\ (pcMining = "mining" /\ watcherGot) => (ctx = "cancelled" /\ cancelG = "done")
    /\ (watcherGot /\ miner = "mining") => ctxCause \in {"signal", "deadline"}

\* The watcher received a signal sent after the drain, cancelled the live
\* context, and the miner has returned.
C2_Witness ==
    /\ pcMining = "mining" /\ cancelAfterDrain /\ watcherGot
    /\ ctxCause = "signal" /\ miner = "done"

\* C4: startMining never holds more than one signal, and of the
\* signalStartMining calls made between two dequeues (during a run, or while
\* none is in progress) at most one is accepted, so at most one further run
\* starts because of them.
C4_Coalesce ==
    /\ startMining <= 1
    /\ burstAccepted <= 1

\* Several calls during a mining run, one of them pending.
C4_Witness ==
    /\ activeRuns = 1 /\ mineCalls = 1
    /\ burstCalls = 2 /\ burstAccepted = 1 /\ startMining = 1

\* --------------------------------------------------- the peer goroutine

\* C7: in a pass of runPeerUpdatesOperation, Truncate is called exactly once
\* when writePeerBlocks returned ErrChainForked and not at all otherwise;
\* after the fork no further peer is processed in the pass; after any other
\* error of writePeerBlocks the pass goes on to the next peer without a
\* Truncate.
C7_ForkRecovery ==
    /\ [](passTruncs = IF passForked THEN 1 ELSE 0)
    /\ [][(passForked /\ passSeen' # passSeen) => (passSeen' = 0 /\ ~passForked')]_vars
    /\ [][(passSeen' = passSeen + 1 /\ passErr' \in {"sendErr", "invalid"})
            => (passTruncs' = passTruncs /\ passIdx' = passIdx + 1)]_vars

\* A fork at the first of two peers: Truncate ran once, the second peer was
\* not processed and the pass is over.
C7_Witness ==
    /\ passForked /\ passTruncs = 1 /\ passErr = "ErrChainForked"
    /\ passLen = 2 /\ passSeen = 1
    /\ pcPeer = "select"

\* Another error at the first of two peers, and the second one processed.
C7_WitnessOther ==
    /\ ~passForked /\ passTruncs = 0
    /\ passLen = 2 /\ passSeen = 2

\* C6: with no cancel signal and no shutdown, every return of
\* runMiningOperation that finds TransPerBlock transactions or more in the
\* mempool leaves a startMining signal pending, and once startMining is
\* signalled with such a mempool the mempool length falls below
\* TransPerBlock at last, with no further call of signalStartMining needed.
C6_SelfRearm ==
    /\ [][(pcMining = "rearm" /\ pcMining' = "select" /\ mempool >= TransPerBlock)
            => startMining' = 1]_vars
    /\ (mempool >= TransPerBlock /\ startMining = 1) ~> (mempool < TransPerBlock)

\* Two blocks were mined and the mempool is below the threshold, and
\* signalStartMining was not called since the last dequeue of startMining.
C6_Witness ==
    /\ latest = 2 /\ mempool < TransPerBlock
    /\ pcMining = "select" /\ startMining = 0 /\ burstCalls = 0

\* ------------------------------------------------- shutdown, signallers

\* C3: once shutdown() is called it returns: the three goroutines exit and
\* wg.Wait() ends, whatever each goroutine was doing, a mining run included.
C3_ShutdownCompletes == (pcMain = "sdCancel") ~> (pcMain = "sdDone")

\* shutdown() has returned and the three goroutines have exited, after a
\* block was mined.
C3_Witness ==
    /\ pcMain = "sdDone"
    /\ pcPeer = "exited" /\ pcMining = "exited" /\ pcShare = "exited"
    /\ latest = 1

\* shutdown() is waiting while a peer pass, a share operation and a mining
\* run are all in progress.
C3_WitnessBusy ==
    /\ pcMain = "sdWait"
    /\ pcPeer = "run" /\ pcShare = "run" /\ pcMining = "mining" /\ miner = "mining"

ValidationErrors == {"wrong chain id", "sending money to yourself",
                     "nonce too small", "insufficient funds"}

RECURSIVE SumBalances(_, _)
SumBalances(acc, ids) ==
    IF ids = {} THEN 0
    ELSE LET a == CHOOSE x \in ids : TRUE
         IN Get(acc, a).Balance + SumBalances(acc, ids \ {a})

\* C8: when ApplyTransaction returns a validation error, the sender's stored
\* balance is its pre-balance less min(GasPrice*GasUnits, pre-balance), the
\* beneficiary's is its pre-balance plus that amount (an account that is both
\* is charged and credited), and no nonce and no other balance has changed.
C8_GasChargedOnRejection ==
    (call.op = "tx" /\ callErr \in ValidationErrors) =>
        LET gas == Min(call.gasPrice * call.gasUnits, Get(pre, call.from).Balance)
        IN \A a \in Acct :
               /\ Get(accounts, a).Nonce = Get(pre, a).Nonce
               /\ Get(accounts, a).Balance =
                      Get(pre, a).Balance
                      - (IF a = call.from THEN gas ELSE 0)
                      + (IF a = call.bnfc THEN gas ELSE 0)

\* C9: for every account, the nonces of its transactions that ApplyTransaction
\* applied (returned nil for) are strictly increasing, in the order of the calls.
C9_NonceMonotone ==
    \A a \in Acct :
        \A i, j \in 1..Len(okNonces[a]) :
            i < j => okNonces[a][i] < okNonces[a][j]

\* C10: the sum of all balances is the sum of the genesis balances plus the
\* mining rewards granted.
C10_Conservation ==
    SumBalances(accounts, Acct) = SumBalances(GenesisAccounts, Acct) + rewardTotal

\* C11: no subtraction ApplyTransaction makes on the sender's balance
\* underflows, and every balance stored after the call is what the same
\* steps give in arithmetic that does not wrap.
C11_NoWrap ==
    (call.op = "tx" /\ call.from # "badsig") =>
        LET balance == Get(pre, call.from).Balance
            gasFee  == Min(U(call.gasPrice * call.gasUnits), balance)
            exact   == ApplyTransactionIn(Exact, pre, call.bnfc, call)
        IN /\ callErr = "nil" => /\ balance - gasFee - call.value >= 0
                                 /\ balance - gasFee - call.value - call.tip >= 0
           /\ \A a \in Acct :
                  Get(accounts, a).Balance = Get(exact.accounts, a).Balance

\* C12: when sender, recipient and beneficiary are three distinct accounts and
\* ApplyTransaction returns nil, the sender has lost gasFee + Value + Tip and
\* carries tx.Nonce, the recipient has gained Value, the beneficiary has gained
\* gasFee + Tip, both with their nonces unchanged, and every other account is
\* unchanged.
C12_SuccessfulTransfer ==
    (/\ call.op = "tx" /\ callErr = "nil"
     /\ call.from # call.to /\ call.from # call.bnfc /\ call.to # call.bnfc) =>
        LET gasFee == Min(call.gasPrice * call.gasUnits, Get(pre, call.from).Balance)
        IN /\ Get(accounts, call.from) =
                  [Balance |-> Get(pre, call.from).Balance - gasFee - call.value - call.tip,
                   Nonce |-> call.nonce]
           /\ Get(accounts, call.to) =
                  [Balance |-> Get(pre, call.to).Balance + call.value,
                   Nonce |-> Get(pre, call.to).Nonce]
           /\ Get(accounts, call.bnfc) =
                  [Balance |-> Get(pre, call.bnfc).Balance + gasFee + call.tip,
                   Nonce |-> Get(pre, call.bnfc).Nonce]
           /\ \A a \in Acct \ {call.from, call.to, call.bnfc} :
                  Get(accounts, a) = Get(pre, a)

\* C13: the checks are made in the order chain ID, self-transfer, nonce,
\* funds, the first that fails gives the error, and the funds check fails
\* exactly when the sender's balance after the gas charge is less than
\* Value + Tip; a transaction that passes them all is applied.
C13_ValidationOutcome ==
    (call.op = "tx" /\ call.from # "badsig") =>
        LET balance == Get(pre, call.from).Balance
            postGas == balance - Min(call.gasPrice * call.gasUnits, balance)
        IN callErr =
              IF call.chainID # ChainID THEN "wrong chain id"
              ELSE IF call.from = call.to THEN "sending money to yourself"
              ELSE IF call.nonce <= Get(pre, call.from).Nonce THEN "nonce too small"
              ELSE IF postGas < call.value + call.tip THEN "insufficient funds"
              ELSE "nil"

\* acc with amount added to (taken from, when negative) the balance of id.
Credit(acc, id, amount) ==
    Put(acc, id, [Get(acc, id) EXCEPT !.Balance = @ + amount])

\* The debits, the credits and the nonce update of a call with outcome
\* error, made one after another on the one account map acc.
OnSharedMap(acc, bnfcID, tx, error) ==
    LET balance  == Get(acc, tx.from).Balance
        gasFee   == Min(tx.gasPrice * tx.gasUnits, balance)
        charged  == Credit(Credit(acc, tx.from, 0 - gasFee), bnfcID, gasFee)
        moved    == Credit(Credit(charged, tx.from, 0 - tx.value), tx.to, tx.value)
        tipped   == Credit(Credit(moved, tx.from, 0 - tx.tip), bnfcID, tx.tip)
    IN IF error = "nil"
       THEN Put(tipped, tx.from, [Get(tipped, tx.from) EXCEPT !.Nonce = tx.nonce])
       ELSE charged

\* C19: when two or all three of sender, recipient and beneficiary are the
\* same account, the accounts stored after ApplyTransaction are those that
\* the same debits, credits and nonce update give when made one after
\* another on a single shared account map.
C19_AliasedConsistent ==
    (/\ call.op = "tx" /\ call.from # "badsig"
     /\ Cardinality({call.from, call.to, call.bnfc}) < 3) =>
        \A a \in Acct :
            Get(accounts, a) = Get(OnSharedMap(pre, call.bnfc, call, callErr), a)

\* ------------------------------------------------------------ the start

\* C14 (as stated): when runBCWorker has returned, every goroutine is inside
\* the select of its loop (or further).
C14_InLoopAtReturn ==
    Returned => /\ pcPeer \notin {"spawned", "begin"}
                /\ pcMining \notin {"spawned", "begin"}
                /\ pcShare \notin {"spawned", "begin"}

\* C14 (amended): when runBCWorker has returned, it has received from
\* hasStarted once for each of the three goroutines and every goroutine has
\* made its send, the statement before the call of its operation.
C14_StartedAtReturn ==
    Returned => /\ started = NumOperations
                /\ pcPeer # "spawned" /\ pcMining # "spawned" /\ pcShare # "spawned"

\* runBCWorker has returned and a signal is already pending while the mining
\* goroutine has made its send but is not yet in its select.
C14_Witness ==
    /\ pcMain = "running" /\ started = NumOperations
    /\ pcMining = "begin" /\ pcPeer = "select" /\ pcShare = "begin"
    /\ startMining = 1

\* ------------------------------------------------- stale cancel signals

\* C20: a cancelMining signal that was in the channel when the mining
\* goroutine dequeued the run's startMining signal is gone once the run has
\* made its drain, and the run's cancel watcher receives, and the run's
\* context is cancelled by, only a signal sent after the drain.
C20_StaleCancelDrained ==
    /\ (Drained /\ staleCancel /\ ~cancelAfterDrain) =>
           (cancelMining = 0 /\ ~watcherGot /\ ctxCause # "signal")
    /\ (InRun /\ watcherGot) => cancelAfterDrain
    /\ (InRun /\ ctxCause = "signal") => cancelAfterDrain

\* A run that began with a stale signal in cancelMining has mined a block,
\* its context never cancelled by a signal.
C20_Witness ==
    /\ pcMining = "mining" /\ staleCancel /\ ~cancelAfterDrain
    /\ miner = "done" /\ ctxCause = "miner" /\ latest = 1 /\ cancelMining = 0

\* ------------------------------------------------- announcing a block

\* C15: when sendBlockToPeers has returned, the mined block was posted to
\* every peer of the list it copied, whether or not a post to another peer
\* failed.
C15_AnnouncedToEveryPeer ==
    annState = "returned" => annTried = annLen


\* C16: every ledger mutation runs under the writer lock, so none of the
\* locked operations (ApplyTransaction, ApplyMiningReward, Remove,
\* UpdateLatestBlock, CopyAccounts, LatestBlock) is inside its critical
\* section while Reset is part-way through.
C16_ResetExclusive == resetPc # "idle" => mu = "free"

\* C17: when New returns a database and whenever Reset returns, the account
\* map and the latest block are those of the genesis balances and the replay
\* of every block storage holds then.
C17_MemoryEqualsReplay ==
    [][((dbPc = "new" /\ dbPc' = "open") \/ (resetPc = "seed" /\ resetPc' = "idle"))
       => /\ accounts' = Replay(SeedGenesis(EmptyAccounts), storage')
          /\ latestBlock' = Len(storage')]_vars

\* C18: once an iter.Next call of ReadAllBlocks has returned an error, or a
\* block has failed ValidateBlock, ReadAllBlocks does not return blocks and
\* New returns no database.
C18_ReplayErrorsFatal ==
    (raErrSeen \/ raInvalidSeen) => (raState # "ok" /\ dbPc # "open")


\* ------------------------------------------------------------- shutdown

\* The goroutine is inside the operation its signal asks for.
PeerRuns == pcPeer = "run"
MiningRuns == pcMining \in {"drain", "chkLen", "mining", "rearm"}
ShareRuns == pcShare = "run"

\* C21: once shut is closed no goroutine starts runPeerUpdatesOperation,
\* runMiningOperation or runShareTxOperation: an operation that runs after
\* the close was already running (its isShutdown check had passed) before.
C21_NoNewWorkAfterShut ==
    [][shut => /\ (PeerRuns' => PeerRuns)
               /\ (MiningRuns' => MiningRuns)
               /\ (ShareRuns' => ShareRuns)]_vars

\* C21, its case: shut is closed and the mining goroutine is back in its
\* select with the history of a run that has not ended (a cancel signalled
\* since the dequeue, which the end of a run clears): it dequeued
\* startMining and isShutdown sent it back.
C21_Witness ==
    /\ shut /\ pcMining = "select" /\ cancelInRun
    /\ activeRuns = 0


\* ------------------------------------------------- the share-tx goroutine

\* Every peer of the copy was sent exactly one POST /tx/add.
PostedOnceToEach ==
    /\ shareIdx = shareLen
    /\ \A i \in 1..shareLen : Len(sharePosts[i]) = 1

\* The share-tx goroutine is done with the batch it dequeued.
BatchDone == pcShare \in {"chk", "run"} /\ pcShare' = "select"

\* Batches leave txSharing in the order they were accepted into it: a batch
\* is accepted behind those waiting and the one dequeued is the one in front.
FifoOrder ==
    /\ Len(txSharing') > Len(txSharing)
        => SubSeq(txSharing', 1, Len(txSharing)) = txSharing
    /\ (pcShare = "select" /\ pcShare' = "chk")
        => (curBatch' = Head(txSharing) /\ txSharing' = Tail(txSharing))

C23_NoSubActivityLeft ==
    /\ [][(pcMining = "mining" /\ pcMining' # "mining")
            => (cancelG = "done" /\ miner = "done")]_vars
    /\ [](pcMining # "mining" => (cancelG = "none" /\ miner = "none"))
    /\ [][cancelMining' < cancelMining
            => (pcMining = "drain" \/ (pcMining = "mining" /\ cancelG = "wait"))]_vars
    /\ (miner = "done" ~> cancelG # "wait")

\* C23, its case: the miner has returned with a block, no cancelMining
\* signal was sent during the run, and the cancel watcher has terminated on
\* the context the miner's return cancelled.
C23_Witness ==
    /\ pcMining = "mining" /\ miner = "done" /\ cancelG = "done"
    /\ ctxCause = "miner" /\ latest = 1
    /\ ~cancelInRun /\ ~watcherGot /\ cancelMining = 0

====
